---- MODULE Spec2Model ----
(***************************************************************************)
(* Model of the Tanaghum yt-dlp audio extraction service                   *)
(* (src/ytdlp-service/app.py): the handlers /extract, /download and /info, *)
(* the extraction adapter run_ytdlp, the URL normalisation each handler    *)
(* performs and the audio format selection.                                *)
(*                                                                         *)
(* Python strings are TLA+ strings; None is the value None, a key that a   *)
(* dict or a response body does not have is the value Absent.              *)
(***************************************************************************)
EXTENDS Integers, Sequences, FiniteSets, TLC

VARIABLES
  pc,       \* "idle": waiting for a request; "done": a handler has finished
  route,    \* the route of the request being handled
  req,      \* the request: method, url and format parameters, kind of JSON body
  ytUrl,    \* the URL handed to the extractor, Absent if it was not invoked
  ytCalls,  \* how many times the extractor process was run for this request
  proc,     \* how the extractor process ended
  status,   \* HTTP status of the response
  body,     \* the response body: a JSON object, a stream or an error page
  raised,   \* the exception that left the handler, "none" if it returned
  fetched   \* the media URL /download opened, Absent if none

vars == <<pc, route, req, ytUrl, ytCalls, proc, status, body, raised, fetched>>

None == "<None>"
Absent == "<absent>"

(* ---------------------------------------------------------------------- *)
(* Bounds of the model                                                     *)
(* ---------------------------------------------------------------------- *)
\* longest format list the extractor reports
MaxFormats == 2
\* most diagnostic fragments in one captured error text
MaxFrags == 2

(* ---------------------------------------------------------------------- *)
(* Python string operations                                                *)
(* ---------------------------------------------------------------------- *)
UpperAlpha == "ABCDEFGHIJKLMNOPQRSTUVWXYZ"
LowerAlpha == "abcdefghijklmnopqrstuvwxyz"

\* the lower-case letter of each upper-case letter
LowerOf ==
  [c \in { SubSeq(UpperAlpha, i, i) : i \in 1..26 } |->
     LET i == CHOOSE j \in 1..26 : SubSeq(UpperAlpha, j, j) = c
     IN  SubSeq(LowerAlpha, i, i)]

LowerChar(c) == IF c \in DOMAIN LowerOf THEN LowerOf[c] ELSE c

\* str.lower(), computed half by half
RECURSIVE lower(_)
lower(s) ==
  IF Len(s) = 0 THEN ""
  ELSE IF Len(s) = 1 THEN LowerChar(s)
  ELSE LET h == Len(s) \div 2
       IN  lower(SubSeq(s, 1, h)) \o lower(SubSeq(s, h + 1, Len(s)))

\* Python's `sub in s`
Contains(sub, s) ==
  \E i \in 1..(Len(s) - Len(sub) + 1) : SubSeq(s, i, i + Len(sub) - 1) = sub

startswith(s, p) == Len(s) >= Len(p) /\ SubSeq(s, 1, Len(p)) = p

\* Python's s[:n]
Slice(s, n) == SubSeq(s, 1, IF Len(s) < n THEN Len(s) ELSE n)

\* Python truth value of None or a string
Truthy(v) == v # None /\ v # ""

\* Python's `a or b` on strings
Or(a, b) == IF Truthy(a) THEN a ELSE b

\* None among numbers (a JSON null bitrate)
NoneNum == 0 - 1

\* Python truth value of None or a number
TruthyNum(v) == v # NoneNum /\ v # 0

\* Python's `a or b` on numbers
OrNum(a, b) == IF TruthyNum(a) THEN a ELSE b

\* Python's d.get(k): None when the dict has no key k
get(d, k) == IF k \in DOMAIN d THEN d[k] ELSE None

\* Python's d.get(k, default)
getd(d, k, default) == IF k \in DOMAIN d THEN d[k] ELSE default

\* Python's d.get(k) for a numeric field
getnum(d, k) == IF k \in DOMAIN d THEN d[k] ELSE NoneNum

WatchPrefix == "https://www.youtube.com/watch?v="

(* ---------------------------------------------------------------------- *)
(* What the extractor process can produce                                  *)
(* ---------------------------------------------------------------------- *)
\* the direct media URL of the record at source position i
MediaUrl(i) == "https://media.example/" \o ToString(i)

Rates == { [abr |-> NoneNum, tbr |-> NoneNum],
           [abr |-> 128, tbr |-> NoneNum],
           [abr |-> 0, tbr |-> 160] }

\* a format record at source position i; yt-dlp writes acodec "none" for a
\* record without audio and may leave the key out altogether
FormatRecords(i) ==
  { [acodec |-> a, vcodec |-> v, abr |-> r.abr, tbr |-> r.tbr,
     url |-> MediaUrl(i), ext |-> "webm"] :
       a \in {"none", "opus"}, v \in {"none", "vp9"}, r \in Rates }
  \cup
  { [vcodec |-> v, abr |-> r.abr, tbr |-> r.tbr,
     url |-> MediaUrl(i), ext |-> "webm"] :
       v \in {"none", "vp9"}, r \in Rates }

RECURSIVE FormatListsOfLen(_)
FormatListsOfLen(n) ==
  IF n = 0 THEN { <<>> }
  ELSE { Append(fl, f) : fl \in FormatListsOfLen(n - 1), f \in FormatRecords(n) }

FormatLists == UNION { FormatListsOfLen(n) : n \in 0..MaxFormats }

\* Python None, where a dict was expected (JSON null on stdout, or the info
\* of a failed run)
NoInfo == [json_null |-> TRUE]

IsNone(info) == "json_null" \in DOMAIN info

Descriptions == { "", "A talk about Arabic listening practice." }

\* the JSON values yt-dlp --dump-json can leave on stdout
InfoValues ==
  { NoInfo }
  \cup { [id |-> "dQw4w9WgXcQ", description |-> d, formats |-> fl] :
           d \in {"A talk about Arabic listening practice."}, fl \in FormatLists }
  \cup { [id |-> "dQw4w9WgXcQ", description |-> d, formats |-> <<>>] :
           d \in Descriptions \cup {None} }
  \cup { [id |-> "dQw4w9WgXcQ", formats |-> <<>>],
         [id |-> "dQw4w9WgXcQ", description |-> ""] }

\* fragments of the diagnostics yt-dlp writes
Fragments ==
  { "ERROR: [youtube] dQw4w9WgXcQ: Video unavailable",
    "ERROR: [youtube] dQw4w9WgXcQ: Private video",
    "Sign in to confirm you're not a bot",
    "Confirm you are NOT a bot",
    "LOGIN_REQUIRED",
    "[debug] [GetPOT] fetching player PO Token",
    "no token Provider answered",
    "HTTP Error 429: Too Many Requests" }

RECURSIVE TextsOfLen(_)
TextsOfLen(n) ==
  IF n = 1 THEN Fragments
  ELSE { t \o ". " \o f : t \in TextsOfLen(n - 1), f \in Fragments }

ErrorTexts == UNION { TextsOfLen(n) : n \in 1..MaxFrags }

\* the ways one run of the extractor process can end
ProcOutcomes ==
  { [kind |-> "timeout"] }
  \cup { [kind |-> "oserror", message |-> "[Errno 2] No such file or directory: 'yt-dlp'"] }
  \cup { [kind |-> "exited", returncode |-> 1, stderr |-> t, stdout |-> ""] :
           t \in ErrorTexts }
  \cup { [kind |-> "exited", returncode |-> 1, stderr |-> "", stdout |-> t] :
           t \in Fragments \cup {""} }
  \cup { [kind |-> "exited", returncode |-> 0, stderr |-> "", stdout |-> t] :
           t \in {"", "<html>Private video</html>"} }
  \cup { [kind |-> "exited", returncode |-> 0, stderr |-> w, json |-> v] :
           w \in {""}, v \in InfoValues }

NotRun == [kind |-> "not_run"]

(* ---------------------------------------------------------------------- *)
(* run_ytdlp                                                               *)
(* ---------------------------------------------------------------------- *)
\* NonZeroExitMessage with the test made on the text as captured, not on its
\* lower-case form
NonZeroExitMessageCaseSensitive(p) ==
  LET error_msg == Or(Or(p.stderr, p.stdout), "Unknown error")
  IN  IF Contains("pot", error_msg) \/ Contains("provider", error_msg)
      THEN "POT provider issue: " \o error_msg
      ELSE error_msg

\* lines 65-70: the error text of a non-zero exit
NonZeroExitMessage(p) ==
  LET error_msg == Or(Or(p.stderr, p.stdout), "Unknown error")
      lowered == lower(error_msg)
  IN  IF Contains("pot", lowered) \/ Contains("provider", lowered)
      THEN "POT provider issue: " \o error_msg
      ELSE error_msg

\* lines 78-79: the error text of unparsable output
ParseFailureMessage(p) ==
  "Failed to parse yt-dlp output: Expecting value: line 1 column 1 (char 0). stdout: "
    \o (IF p.stdout # "" THEN Slice(p.stdout, 500) ELSE "empty")

\* run_ytdlp running the process a second time after a timeout
run_ytdlp_retry(video_url, p) ==
  CASE p.kind = "timeout" ->
         [info |-> NoInfo, error |-> "Request timed out", calls |-> 2]
    [] p.kind = "oserror" ->
         [info |-> NoInfo, error |-> p.message, calls |-> 1]
    [] p.kind = "exited" /\ p.returncode # 0 ->
         [info |-> NoInfo, error |-> NonZeroExitMessage(p), calls |-> 1]
    [] p.kind = "exited" /\ p.returncode = 0 /\ "json" \notin DOMAIN p ->
         [info |-> NoInfo, error |-> ParseFailureMessage(p), calls |-> 1]
    [] OTHER ->
         [info |-> p.json, error |-> None, calls |-> 1]

\* run_ytdlp(video_url) when the process it starts ends as p: the pair
\* (info, error) it returns and the number of times it ran the process
run_ytdlp(video_url, p) ==
  CASE p.kind = "timeout" ->
         [info |-> NoInfo, error |-> "Request timed out", calls |-> 1]
    [] p.kind = "oserror" ->
         [info |-> NoInfo, error |-> p.message, calls |-> 1]
    [] p.kind = "exited" /\ p.returncode # 0 ->
         [info |-> NoInfo, error |-> NonZeroExitMessage(p), calls |-> 1]
    [] p.kind = "exited" /\ p.returncode = 0 /\ "json" \notin DOMAIN p ->
         [info |-> NoInfo, error |-> ParseFailureMessage(p), calls |-> 1]
    [] OTHER ->
         [info |-> p.json, error |-> None, calls |-> 1]

(* ---------------------------------------------------------------------- *)
(* Format selection (shared by /extract and /download)                     *)
(* ---------------------------------------------------------------------- *)
\* key=lambda x: x.get('abr') or x.get('tbr') or 0
BitrateKey(f) == OrNum(OrNum(getnum(f, "abr"), getnum(f, "tbr")), 0)

AudioOnly(formats) ==
  SelectSeq(formats, LAMBDA f : get(f, "acodec") # "none" /\ get(f, "vcodec") = "none")

\* AnyAudio keeping every format
AnyAudioUnfiltered(formats) == formats

AnyAudio(formats) ==
  SelectSeq(formats, LAMBDA f : get(f, "acodec") # "none")

\* audio_formats after the filter and its fallback
audio_formats(formats) ==
  IF AudioOnly(formats) # <<>> THEN AudioOnly(formats) ELSE AnyAudio(formats)

\* SortInsert putting f before the elements of equal key (an unstable sort)
SortInsertUnstable(sorted, f) ==
  LET n == Cardinality({ i \in 1..Len(sorted) : BitrateKey(sorted[i]) > BitrateKey(f) })
  IN  SubSeq(sorted, 1, n) \o <<f>> \o SubSeq(sorted, n + 1, Len(sorted))

\* one step of list.sort(key=..., reverse=True): f, which followed every
\* element of `sorted` in the list, goes behind the elements whose key is not
\* smaller (the sort is stable)
SortInsert(sorted, f) ==
  LET n == Cardinality({ i \in 1..Len(sorted) : BitrateKey(sorted[i]) >= BitrateKey(f) })
  IN  SubSeq(sorted, 1, n) \o <<f>> \o SubSeq(sorted, n + 1, Len(sorted))

RECURSIVE sort(_)
sort(list) ==
  IF list = <<>> THEN <<>>
  ELSE SortInsert(sort(SubSeq(list, 1, Len(list) - 1)), list[Len(list)])

\* best_audio = audio_formats[0] after the sort
best_audio(formats) == sort(audio_formats(formats))[1]

(* ---------------------------------------------------------------------- *)
(* Requests                                                                *)
(* ---------------------------------------------------------------------- *)
UrlInputs ==
  { "", "abc", "dQw4w9WgXcQ", "http://t.co", "https://youtu.be/dQw4w9WgXcQ" }

\* /extract by GET: url and format are query parameters
\* /extract by POST: json says what the body holds; url and format are the
\* keys of a JSON object body
ExtractRequests ==
  { [method |-> "GET", url |-> u, format |-> Absent, json |-> "n/a"] :
      u \in UrlInputs \cup {Absent} }
  \cup
  { [method |-> "GET", url |-> u, format |-> "info", json |-> "n/a"] :
      u \in {"dQw4w9WgXcQ", Absent} }
  \cup
  { [method |-> "POST", url |-> Absent, format |-> Absent, json |-> j] :
      j \in {"no_body", "zero_length", "null"} }
  \cup
  { [method |-> "POST", url |-> u, format |-> f, json |-> "object"] :
      u \in {Absent, "dQw4w9WgXcQ"}, f \in {Absent, "info"} }

GetRequests ==
  { [method |-> "GET", url |-> u, format |-> Absent, json |-> "n/a"] :
      u \in UrlInputs \cup {Absent} }

\* request.get_json(): "value" when it returns (the object, or None), else
\* the HTTP error it raises.  A zero-length body sent as application/json
\* does not parse; a request without a JSON content type yields None or an
\* error, depending on the installed framework version.
GetJsonOutcomes(r) ==
  CASE r.json = "object" -> {"value"}
    [] r.json = "null" -> {"value"}
    [] r.json = "zero_length" -> {"BadRequest"}
    [] r.json = "no_body" -> {"value", "BadRequest", "UnsupportedMediaType"}
    [] OTHER -> {"value"}

\* request.args.get(k) / (request.get_json() or {}).get(k)
Param(r, k) ==
  IF r.method = "POST" /\ r.json # "object" THEN None
  ELSE IF r[k] = Absent THEN None ELSE r[k]

(* ---------------------------------------------------------------------- *)
(* Responses                                                               *)
(* ---------------------------------------------------------------------- *)
\* a handler returned (jsonify(...), status) before it ran the extractor
Early(st, b) ==
  [status |-> st, body |-> b, raised |-> "none", ytUrl |-> Absent,
   ytCalls |-> 0, proc |-> NotRun, fetched |-> Absent]

\* a handler returned after running the extractor
Returned(st, b, url, res, p) ==
  [status |-> st, body |-> b, raised |-> "none", ytUrl |-> url,
   ytCalls |-> res.calls, proc |-> p, fetched |-> Absent]

\* an exception left the handler: the framework answers with its error page
Raised(exc, st, url, calls, p, f) ==
  [status |-> st, body |-> [html |-> exc], raised |-> exc, ytUrl |-> url,
   ytCalls |-> calls, proc |-> p, fetched |-> f]

HttpStatus(exc) ==
  CASE exc = "BadRequest" -> 400
    [] exc = "UnsupportedMediaType" -> 415
    [] OTHER -> 500

(* ---------------------------------------------------------------------- *)
(* /extract                                                                *)
(* ---------------------------------------------------------------------- *)
\* lines 122-126
normalize_extract(video_url) ==
  IF Len(video_url) = 11 /\ ~startswith(video_url, "http")
  THEN WatchPrefix \o video_url
  ELSE IF ~startswith(video_url, "http")
       THEN WatchPrefix \o video_url
       ELSE video_url

\* error_branch without the arm for private videos
error_branch_no_private(error) ==
  IF Contains("Video unavailable", error) THEN "unavailable"
  ELSE IF Contains("not a bot", lower(error)) \/ Contains("LOGIN_REQUIRED", error)
       THEN "blocked"
  ELSE "other"

\* lines 135-139: which arm of the if/elif chain the error text takes
error_branch(error) ==
  IF Contains("Video unavailable", error) THEN "unavailable"
  ELSE IF Contains("Private video", error) THEN "private"
  ELSE IF Contains("not a bot", lower(error)) \/ Contains("LOGIN_REQUIRED", error)
       THEN "blocked"
  ELSE "other"

\* lines 132-140
error_status(branch) ==
  CASE branch = "unavailable" -> 404
    [] branch = "private" -> 403
    [] branch = "blocked" -> 403
    [] OTHER -> 400

\* error_suggestion never set
error_suggestion_unset(branch) == None

\* lines 133-142
error_suggestion(branch) ==
  IF branch = "blocked"
  THEN "This video requires authentication. Try using YouTube captions instead, or upload audio directly for Whisper transcription."
  ELSE None

\* lines 131-150
extract_error(error) ==
  LET branch == error_branch(error)
      suggestion == error_suggestion(branch)
  IN  [status |-> error_status(branch),
       body |-> [error |-> IF Truthy(suggestion)
                           THEN "Audio extraction blocked by YouTube. Use captions or Whisper transcription."
                           ELSE error,
                 available |-> FALSE,
                 suggestion |-> suggestion,
                 blocked |-> (Contains("LOGIN_REQUIRED", error)
                                \/ Contains("not a bot", lower(error)))]]

\* lines 170-192
extract_success(info, best, output_format) ==
  IF output_format = "info"
  THEN [videoId |-> get(info, "id"), audioUrl |-> get(best, "url"),
        mimeType |-> get(best, "ext"),
        bitrate |-> OrNum(getnum(best, "abr"), getnum(best, "tbr")),
        available |-> TRUE]
  ELSE [videoId |-> get(info, "id"), available |-> TRUE,
        audioUrl |-> get(best, "url"),
        mimeType |-> "audio/" \o getd(best, "ext", "webm")]

\* extract_audio() for request r, when get_json ends as gj and the
\* extractor process as p
extract_response(r, gj, p) ==
  LET video_url == Param(r, "url")
      output_format == IF Param(r, "format") = None THEN "url" ELSE Param(r, "format")
  IN
  IF r.method = "POST" /\ gj # "value"
  THEN Raised(gj, HttpStatus(gj), Absent, 0, NotRun, Absent)
  ELSE IF ~Truthy(video_url)
  THEN Early(400, [error |-> "Missing url parameter"])
  ELSE
    LET url == normalize_extract(video_url)
        res == run_ytdlp(url, p)
    IN
    IF Truthy(res.error)
    THEN LET e == extract_error(res.error) IN Returned(e.status, e.body, url, res, p)
    ELSE IF IsNone(res.info)
    THEN Returned(404, [error |-> "Could not extract video info", available |-> FALSE],
                  url, res, p)
    ELSE
      LET formats == getd(res.info, "formats", <<>>) IN
      IF audio_formats(formats) = <<>>
      THEN Returned(404, [error |-> "No audio formats available", available |-> FALSE],
                    url, res, p)
      ELSE Returned(200, extract_success(res.info, best_audio(formats), output_format),
                    url, res, p)

(* ---------------------------------------------------------------------- *)
(* /download                                                               *)
(* ---------------------------------------------------------------------- *)
\* lines 206-208
normalize_download(video_url) ==
  IF Len(video_url) = 11 THEN WatchPrefix \o video_url ELSE video_url

\* download_audio() for request r, when the extractor process ends as p and
\* the fetch of the media URL as net
download_response(r, p, net) ==
  LET video_url == Param(r, "url") IN
  IF ~Truthy(video_url)
  THEN Early(400, [error |-> "Missing url parameter"])
  ELSE
    LET url == normalize_download(video_url)
        res == run_ytdlp(url, p)
    IN
    IF Truthy(res.error)
    THEN Returned(500, [error |-> res.error], url, res, p)
    ELSE IF IsNone(res.info)
    THEN Raised("AttributeError", 500, url, res.calls, p, Absent)
    ELSE
      LET formats == getd(res.info, "formats", <<>>) IN
      IF audio_formats(formats) = <<>>
      THEN Returned(404, [error |-> "No audio formats available"], url, res, p)
      ELSE
        LET audio_url == get(best_audio(formats), "url") IN
        IF net # "ok"
        THEN Raised(net, 500, url, res.calls, p, audio_url)
        ELSE [status |-> 200,
              body |-> [stream |-> audio_url,
                        content_disposition |->
                          "attachment; filename=\"" \o get(res.info, "id") \o ".webm\""],
              raised |-> "none", ytUrl |-> url, ytCalls |-> res.calls,
              proc |-> p, fetched |-> audio_url]

(* ---------------------------------------------------------------------- *)
(* /info                                                                   *)
(* ---------------------------------------------------------------------- *)
\* lines 249-250
normalize_info(video_url) ==
  IF Len(video_url) = 11 THEN WatchPrefix \o video_url ELSE video_url

DescLimit == 500

\* video_info() for request r, when the extractor process ends as p
info_response(r, p) ==
  LET video_url == Param(r, "url") IN
  IF ~Truthy(video_url)
  THEN Early(400, [error |-> "Missing url parameter"])
  ELSE
    LET url == normalize_info(video_url)
        res == run_ytdlp(url, p)
    IN
    IF Truthy(res.error)
    THEN Returned(500, [error |-> res.error], url, res, p)
    ELSE IF IsNone(res.info)
    THEN Raised("AttributeError", 500, url, res.calls, p, Absent)
    ELSE IF getd(res.info, "description", "") = None
    THEN Raised("TypeError", 500, url, res.calls, p, Absent)
    ELSE Returned(200,
                  [videoId |-> get(res.info, "id"),
                   description |-> Slice(getd(res.info, "description", ""), DescLimit)],
                  url, res, p)

(* ---------------------------------------------------------------------- *)
(* The service                                                             *)
(* ---------------------------------------------------------------------- *)
Idle ==
  /\ pc = "idle"
  /\ route = Absent
  /\ req = [method |-> Absent]
  /\ ytUrl = Absent
  /\ ytCalls = 0
  /\ proc = NotRun
  /\ status = 0
  /\ body = [none |-> TRUE]
  /\ raised = "none"
  /\ fetched = Absent

Init == Idle

\* the handler of route rt answers request r with response out
Handle(rt, r, out) ==
  /\ pc' = "done"
  /\ route' = rt
  /\ req' = r
  /\ ytUrl' = out.ytUrl
  /\ ytCalls' = out.ytCalls
  /\ proc' = out.proc
  /\ status' = out.status
  /\ body' = out.body
  /\ raised' = out.raised
  /\ fetched' = out.fetched

extract_audio ==
  /\ pc = "idle"
  /\ \E r \in ExtractRequests : \E gj \in GetJsonOutcomes(r) : \E p \in ProcOutcomes :
       Handle("/extract", r, extract_response(r, gj, p))

download_audio ==
  /\ pc = "idle"
  /\ \E r \in GetRequests : \E p \in ProcOutcomes : \E net \in {"ok", "ConnectionError"} :
       Handle("/download", r, download_response(r, p, net))

video_info ==
  /\ pc = "idle"
  /\ \E r \in GetRequests : \E p \in ProcOutcomes :
       Handle("/info", r, info_response(r, p))

\* the response is sent; nothing of the request survives it
send_response ==
  /\ pc = "done"
  /\ pc' = "idle"
  /\ route' = Absent
  /\ req' = [method |-> Absent]
  /\ ytUrl' = Absent
  /\ ytCalls' = 0
  /\ proc' = NotRun
  /\ status' = 0
  /\ body' = [none |-> TRUE]
  /\ raised' = "none"
  /\ fetched' = Absent

Next == extract_audio \/ download_audio \/ video_info \/ send_response

Spec == Init /\ [][Next]_vars

(* ---------------------------------------------------------------------- *)
(* What the claims speak of                                                *)
(* ---------------------------------------------------------------------- *)
Done(rt) == pc = "done" /\ route = rt

\* the url parameter of the request, None if it has none
UrlParam == Param(req, "url")

\* the extractor was run and failed: the error text run_ytdlp returned
ExtractorError ==
  IF proc = NotRun THEN None ELSE run_ytdlp(ytUrl, proc).error

\* the extractor was run and left a JSON object on stdout
GotInfo ==
  /\ proc.kind = "exited"
  /\ proc.returncode = 0
  /\ "json" \in DOMAIN proc
  /\ ~IsNone(proc.json)

\* the format list of that object (none listed: the empty list)
GotFormats == IF "formats" \in DOMAIN proc.json THEN proc.json.formats ELSE <<>>

\* a record carries audio unless it says acodec "none"; it is audio-only when
\* it also says vcodec "none"
CarriesAudio(f) == ~("acodec" \in DOMAIN f /\ f.acodec = "none")

IsAudioOnly(f) == CarriesAudio(f) /\ "vcodec" \in DOMAIN f /\ f.vcodec = "none"

\* abr, falling back to tbr, falling back to 0
Bitrate(f) ==
  IF f.abr # NoneNum /\ f.abr # 0 THEN f.abr
  ELSE IF f.tbr # NoneNum /\ f.tbr # 0 THEN f.tbr
  ELSE 0

\* the positions the selection is made among
Candidates(fl) ==
  IF \E i \in 1..Len(fl) : IsAudioOnly(fl[i])
  THEN { i \in 1..Len(fl) : IsAudioOnly(fl[i]) }
  ELSE { i \in 1..Len(fl) : CarriesAudio(fl[i]) }

\* the first position, in source order, of maximal bitrate among them
FirstBest(fl) ==
  CHOOSE i \in Candidates(fl) :
    /\ \A j \in Candidates(fl) : Bitrate(fl[i]) >= Bitrate(fl[j])
    /\ \A j \in Candidates(fl) : Bitrate(fl[j]) = Bitrate(fl[i]) => i <= j

\* the media URL the handler settled on, Absent if none
ChosenUrl ==
  IF Done("/extract") /\ "audioUrl" \in DOMAIN body THEN body.audioUrl
  ELSE IF Done("/download") THEN fetched
  ELSE Absent

\* C1: when the format list holds an audio-capable record, /extract and
\* /download choose, among the audio-only records if there are any and else
\* among the records with audio, the first record in source order whose
\* bitrate (abr, else tbr, else 0) is maximal.
C1_SelectsFirstBest ==
  ((Done("/extract") \/ Done("/download")) /\ GotInfo /\ Candidates(GotFormats) # {})
    => ChosenUrl = GotFormats[FirstBest(GotFormats)].url

\* a tie between two audio-only records was decided for the earlier one
C1_Witness ==
  /\ Done("/download")
  /\ GotInfo
  /\ Len(GotFormats) = 2
  /\ IsAudioOnly(GotFormats[1]) /\ IsAudioOnly(GotFormats[2])
  /\ Bitrate(GotFormats[1]) = 128 /\ Bitrate(GotFormats[2]) = 128
  /\ fetched = MediaUrl(1)

\* /extract answered an extractor failure
ExtractFailed == Done("/extract") /\ ExtractorError # None

HasField(k) == k \in DOMAIN body

\* C2 as stated: every extractor failure whose message contains
\* "Private video", whatever else it contains, is answered by /extract with
\* status 403 and available: false.
C2_PrivateAlways403 ==
  (ExtractFailed /\ Contains("Private video", ExtractorError))
    => (status = 403 /\ HasField("available") /\ body.available = FALSE)

\* C2, amended: an extractor failure whose message contains "Private video"
\* and does not contain "Video unavailable" is answered by /extract with
\* status 403 and available: false.
C2_Private403UnlessUnavailable ==
  (ExtractFailed /\ Contains("Private video", ExtractorError)
     /\ ~Contains("Video unavailable", ExtractorError))
    => (status = 403 /\ HasField("available") /\ body.available = FALSE)

\* a private-video failure that also mentions a bot check was answered 403
C2_Witness ==
  /\ ExtractFailed
  /\ Contains("Private video", ExtractorError)
  /\ Contains("not a bot", ExtractorError)
  /\ status = 403
  /\ body.available = FALSE

\* C3 as stated: every extractor failure whose message contains "not a bot",
\* whatever else it contains, is answered by /extract with status 403,
\* blocked: true and a non-null suggestion.
C3_BotAlwaysBlocked ==
  (ExtractFailed /\ Contains("not a bot", ExtractorError))
    => (status = 403 /\ HasField("blocked") /\ body.blocked = TRUE
          /\ HasField("suggestion") /\ body.suggestion # None)

\* C3, amended: an extractor failure whose message contains "not a bot" and
\* neither "Video unavailable" nor "Private video" is answered by /extract
\* with status 403, blocked: true and a non-null suggestion.
C3_BotBlockedUnlessEarlierArm ==
  (ExtractFailed /\ Contains("not a bot", ExtractorError)
     /\ ~Contains("Video unavailable", ExtractorError)
     /\ ~Contains("Private video", ExtractorError))
    => (status = 403 /\ HasField("blocked") /\ body.blocked = TRUE
          /\ HasField("suggestion") /\ body.suggestion # None)

\* a bot-check failure that also mentions the token provider was answered
\* 403 with the suggestion
C3_Witness ==
  /\ ExtractFailed
  /\ Contains("not a bot", ExtractorError)
  /\ Contains("POT provider issue: ", ExtractorError)
  /\ status = 403
  /\ body.blocked = TRUE
  /\ body.suggestion # None

\* a URL parameter that begins with a scheme, as the handlers test it
BeginsWithScheme(u) == startswith(u, "http")

\* C4 as stated: a url that already starts with a URL scheme, of any length
\* including 11 characters, reaches the extractor unchanged from /extract,
\* /download and /info.
C4_SchemeUrlUnchanged ==
  ((Done("/extract") \/ Done("/download") \/ Done("/info"))
     /\ ytUrl # Absent /\ BeginsWithScheme(UrlParam))
    => ytUrl = UrlParam

\* C5 as stated: a non-empty url that does not begin with a URL scheme, of
\* 11 characters or any other length, reaches the extractor as
\* https://www.youtube.com/watch?v=<input> from /extract, /download and /info.
C5_BareInputWrapped ==
  ((Done("/extract") \/ Done("/download") \/ Done("/info"))
     /\ Truthy(UrlParam) /\ ~BeginsWithScheme(UrlParam))
    => ytUrl = "https://www.youtube.com/watch?v=" \o UrlParam

\* C6 as stated: whatever the extractor produces, /extract, /download and
\* /info end in a response the handler built, a failure carries a status
\* code and a JSON body with an error string, and no exception leaves the
\* handler.
C6_FailuresBecomeJsonErrors ==
  ((Done("/extract") \/ Done("/download") \/ Done("/info")) /\ proc # NotRun)
    => (raised = "none" /\ (status >= 400 => HasField("error")))

\* C7 as stated: /extract without a url parameter answers 400 with an error
\* field, by GET and by POST (JSON body absent, empty, or without a url key).
C7_MissingUrlIs400 ==
  (Done("/extract") /\ UrlParam = None)
    => (status = 400 /\ HasField("error"))

\* C8: a request runs the extractor process at most once: once when it
\* fails or times out, and not at all when the url is missing.
C8_AtMostOneInvocation ==
  /\ ytCalls \in {0, 1}
  /\ (pc = "done" /\ proc # NotRun) => ytCalls = 1
  /\ (pc = "done" /\ ~Truthy(UrlParam)) => (ytCalls = 0 /\ ytUrl = Absent)

\* the extractor timed out and was run once
C8_Witness ==
  /\ pc = "done"
  /\ proc.kind = "timeout"
  /\ ytCalls = 1

\* no record has an audio codec: each says acodec "none" or has no acodec
NoAudioCodecAtAll(fl) ==
  \A i \in 1..Len(fl) : "acodec" \notin DOMAIN fl[i] \/ fl[i].acodec = "none"

\* every record says acodec "none"
AllSayNone(fl) ==
  \A i \in 1..Len(fl) : "acodec" \in DOMAIN fl[i] /\ fl[i].acodec = "none"

NoAudioReported ==
  /\ status = 404
  /\ HasField("error")
  /\ ~HasField("audioUrl")
  /\ fetched = Absent

\* C9 as stated: when the extractor succeeds and every record has acodec
\* "none" or no acodec field at all, /extract and /download answer 404 with
\* an error field, return no audioUrl and open no stream.
C9_NoCodecIs404 ==
  ((Done("/extract") \/ Done("/download")) /\ GotInfo /\ NoAudioCodecAtAll(GotFormats))
    => NoAudioReported

\* C9, amended: when the extractor succeeds and every record has acodec
\* "none", /extract and /download answer 404 with an error field, return no
\* audioUrl and open no stream.
C9_AllNoneIs404 ==
  ((Done("/extract") \/ Done("/download")) /\ GotInfo /\ AllSayNone(GotFormats))
    => NoAudioReported

\* two video-only records, and /download answered 404
C9_Witness ==
  /\ Done("/download")
  /\ GotInfo
  /\ Len(GotFormats) = 2
  /\ AllSayNone(GotFormats)
  /\ status = 404

\* the text captured from a process that exited non-zero
CapturedText == IF proc.stderr # "" THEN proc.stderr ELSE proc.stdout

\* the extractor exited non-zero with token-provider-related text
ProviderFailure ==
  /\ Done("/extract")
  /\ proc.kind = "exited"
  /\ proc.returncode # 0
  /\ (Contains("pot", lower(CapturedText)) \/ Contains("provider", lower(CapturedText)))

Reclassified == ExtractorError = "POT provider issue: " \o CapturedText

\* C10 as stated: a non-zero exit whose captured text contains "pot" or
\* "provider" (in any case) is reclassified with the prefix
\* "POT provider issue: " and /extract answers it with status 400.
C10_ProviderErrorIs400 ==
  ProviderFailure => (Reclassified /\ status = 400)

\* C10, amended: such a failure is reclassified with the prefix, and
\* /extract answers it with status 400 unless the text also contains
\* "Video unavailable", "Private video", "LOGIN_REQUIRED" or (in any case)
\* "not a bot".
C10_ProviderErrorIs400UnlessClassified ==
  ProviderFailure =>
    /\ Reclassified
    /\ (~Contains("Video unavailable", CapturedText)
          /\ ~Contains("Private video", CapturedText)
          /\ ~Contains("LOGIN_REQUIRED", CapturedText)
          /\ ~Contains("not a bot", lower(CapturedText)))
         => (status = 400 /\ HasField("error") /\ body.error = ExtractorError)

\* a token-provider failure next to a rate-limit message was answered 400
C10_Witness ==
  /\ ProviderFailure
  /\ Contains("Provider", CapturedText)
  /\ Contains("HTTP Error 429", CapturedText)
  /\ Reclassified
  /\ status = 400

====
